---------------------------- MODULE Spec2Model ----------------------------
(***************************************************************************)
(* Span lifecycle of the otel_extensions_pytest plugin                     *)
(* (src/otel_extensions_pytest/__init__.py).                               *)
(*                                                                         *)
(* The plugin's module globals, the ambient "current span" context of the  *)
(* tracing API and the spans the plugin starts are the state.  Every hook  *)
(* of the plugin is one action (a hook wrapper is two: the part before its *)
(* yield and the part after it; an instrumented fixture is one action per  *)
(* resumption of its wrapper).  The host runner calls the hooks in the     *)
(* order of its test protocol: setup, call (only when setup passed),       *)
(* teardown, each followed by makereport, logreport and, for an ordinary   *)
(* exception, exception_interact.  Fixtures have the decorator's default   *)
(* scope ("function"): they are set up in the setup phase of the test that *)
(* requests them and torn down in its teardown phase.  The session level   *)
(* functions are called between tests, in any order and number; no test    *)
(* runs once the host has called pytest_sessionfinish or                   *)
(* pytest_unconfigure.                                                     *)
(***************************************************************************)
EXTENDS Integers, Sequences, FiniteSets, TLC

VARIABLES
    session_context_stack,  \* global, line 26: None, or an ExitStack and its callbacks
    tracer,                 \* global, line 25: "unset" (the name is only annotated) or a tracer
    options,                \* the TelemetryOptions handed to the provider
    environ,                \* os.environ, restricted to TRACEPARENT
    trace_id,               \* trace id of the session span's context, as hex digits
    spans,                  \* every span started and still held: id -> span record
    current,                \* the span that trace.get_current_span() returns
    log,                    \* what _logger() has emitted: <<level, message>>
    flushes,                \* number of calls of flush_telemetry_data()
    runloopDone,            \* the host has left its run loop
    pc,                     \* position of the host in the protocol of the running test
    t,                      \* number of the running (or last run) test item
    when,                   \* phase of the running test: "setup" | "call" | "teardown"
    excinfo,                \* call.excinfo of the phase: "none" | "error" | "skipped"
    results,                \* what each phase of the running test ended with
    fixtures,               \* the instrumented fixtures the running test requests
    lastCall                \* the plugin function entered last, and its argument

vars == <<session_context_stack, tracer, options, environ, trace_id, spans, current, log,
          flushes, runloopDone, pc, t, when, excinfo, results, fixtures, lastCall>>

sessionVars == <<session_context_stack, tracer, options, environ, trace_id>>
hostVars == <<pc, t, when, excinfo, results, fixtures>>

-----------------------------------------------------------------------------
(* Bounds of the model *)

MaxTests == 2
MaxFixtures == 2
MaxLog == 3
MaxFlushes == 2

-----------------------------------------------------------------------------
(* Inputs *)

DEFAULT_SESSION_NAME == "pytest session"

\* exit statuses the host may hand to pytest_sessionfinish: the six exit
\* codes of the host and integers outside them
ExitCodes == {-1, 0, 1, 2, 3, 4, 5, 6, 100}

\* values of --otel-session-name / --otel-traceparent (None when not given)
SessionNameOptions == {"None", "cli session"}
TraceparentOptions == {"None", "tp-cli"}
TraceparentEnv == {"None", "tp-env"}

-----------------------------------------------------------------------------
(* Spans and the ambient context *)

\* a span is identified by what it is named after: kind, number of the test
\* (of the session span: of the call that started it), fixture, label
NoSpan == <<"none", 0, 0, "">>
SessionSpan(n) == <<"session", n, 0, "">>
TestSpan(n) == <<"test", n, 0, "">>
PhaseSpan(n, phase) == <<"phase", n, 0, phase>>
FixtureSpan(n, i, label) == <<"fixture", n, i, label>>

SessionSpans(S) == {id \in DOMAIN S : id[1] = "session"}

NoAttrs == [k \in {} |-> ""]

\* Tracer.start_as_current_span, entering: the new span's parent is the span
\* current at that moment, and the context token remembers what to restore
NewSpan(cur) ==
    [parent |-> cur, token |-> cur, ends |-> 0, status |-> "UNSET",
     attrs |-> NoAttrs, exception |-> FALSE]

StartSpan(S, cur, id) == (id :> NewSpan(cur)) @@ S

\* every span taken for a recording one
is_recording_Always(S, id) == TRUE

\* Span.is_recording(): a started span that has not ended; the invalid span
\* that get_current_span() returns without a current span never records
is_recording(S, id) == id \in DOMAIN S /\ S[id].ends = 0

\* Span.set_attribute / Span.set_status: dropped by a span that is not
\* recording; on a recording span the value given last is the one kept
set_attribute(S, id, key, value) ==
    IF is_recording(S, id)
    THEN [S EXCEPT ![id].attrs = (key :> value) @@ @]
    ELSE S

set_status(S, id, status) ==
    IF is_recording(S, id) THEN [S EXCEPT ![id].status = status] ELSE S

\* leaving start_as_current_span: the span ends
EndSpan(S, id) == [S EXCEPT ![id].ends = @ + 1]

\* the context is cleared instead of being reset to the token's value
Detach_Cleared(S, id) == NoSpan

\* leaving start_as_current_span: the context is reset to the token's value
Detach(S, id) == S[id].token

\* leaving start_as_current_span with an exception passing through it
\* (record_exception and set_status_on_exception are on)
EndSpanOnException(S, id) ==
    EndSpan([S EXCEPT ![id].exception = TRUE, ![id].status = "ERROR"], id)

-----------------------------------------------------------------------------
(* Outcome translation *)

\* the branch for "no_tests_collected" left out
_convert_outcome_Omission(outcome) ==
    IF outcome = "passed" THEN "OK"
    ELSE IF \/ outcome = "failed"
            \/ outcome = "interrupted"
            \/ outcome = "internal_error"
            \/ outcome = "usage_error"
         THEN "ERROR"
         ELSE "UNSET"

_convert_outcome(outcome) ==
    IF outcome = "passed" THEN "OK"
    ELSE IF \/ outcome = "failed"
            \/ outcome = "interrupted"
            \/ outcome = "internal_error"
            \/ outcome = "usage_error"
            \/ outcome = "no_tests_collected"
         THEN "ERROR"
         ELSE "UNSET"

\* an exit code outside 0..5 taken for a success
_exit_code_to_outcome_Else(exit_code) ==
    IF exit_code = 0 THEN "passed"
    ELSE IF exit_code = 1 THEN "failed"
    ELSE IF exit_code = 2 THEN "interrupted"
    ELSE IF exit_code = 3 THEN "internal_error"
    ELSE IF exit_code = 4 THEN "usage_error"
    ELSE IF exit_code = 5 THEN "no_tests_collected"
    ELSE "passed"

_exit_code_to_outcome(exit_code) ==
    IF exit_code = 0 THEN "passed"
    ELSE IF exit_code = 1 THEN "failed"
    ELSE IF exit_code = 2 THEN "interrupted"
    ELSE IF exit_code = 3 THEN "internal_error"
    ELSE IF exit_code = 4 THEN "usage_error"
    ELSE IF exit_code = 5 THEN "no_tests_collected"
    ELSE "failed"

-----------------------------------------------------------------------------
(* Session span manager *)

\* `a or b` on option values
Or(a, b) == IF a # "None" THEN a ELSE b

\* no TelemetryOptions object yet
NoOptions == [OTEL_SESSION_NAME |-> "None"]

\* get_tracer(name, service_name): the tracer is known by its name
get_tracer(name) == "tracer " \o name

\* session_context_stack: None, and ExitStack() with the spans it has entered
None == [none |-> TRUE, callbacks |-> <<>>]
ExitStack(callbacks) == [none |-> FALSE, callbacks |-> callbacks]

\* the callbacks run and are kept, so that a later close runs them again
ExitStackClose_Kept(S, cur, callbacks) ==
    IF callbacks = <<>>
    THEN [spans |-> S, current |-> cur, callbacks |-> callbacks]
    ELSE [spans |-> EndSpan(S, callbacks[1]), current |-> Detach(S, callbacks[1]),
          callbacks |-> callbacks]

\* ExitStack.close(): the callbacks are popped and run, last entered first
RECURSIVE ExitStackClose(_, _, _)
ExitStackClose(S, cur, callbacks) ==
    IF callbacks = <<>>
    THEN [spans |-> S, current |-> cur, callbacks |-> callbacks]
    ELSE LET id == callbacks[Len(callbacks)]
         IN  ExitStackClose(EndSpan(S, id), Detach(S, id),
                            SubSeq(callbacks, 1, Len(callbacks) - 1))

\* a trace id is a 128 bit integer: here the sequence of its 32 base 16
\* digits, most significant first; the tracer generates it for the root span
TraceIdWidth == 32
TraceIds ==
    {[i \in 1..TraceIdWidth |-> (i * 7) % 16],
     [i \in 1..TraceIdWidth |-> IF i = 1 THEN 0 ELSE (i * 7) % 16]}

HexDigits == <<"0", "1", "2", "3", "4", "5", "6", "7", "8", "9",
               "a", "b", "c", "d", "e", "f">>

\* the digits of an integer without its leading zeros
RECURSIVE Significant(_)
Significant(digits) ==
    IF digits # <<>> /\ digits[1] = 0 THEN Significant(Tail(digits)) ELSE digits

\* format(n, "x"): the lowercase hexadecimal numeral of n, as characters
Hex(digits) ==
    IF Significant(digits) = <<>> THEN <<"0">>
    ELSE [i \in 1..Len(Significant(digits)) |-> HexDigits[Significant(digits)[i] + 1]]

\* a format specification with a width and neither fill nor alignment: a
\* number is right-aligned and filled with spaces
PadLeft(chars, width) ==
    IF Len(chars) >= width THEN chars
    ELSE [i \in 1..(width - Len(chars)) |-> " "] \o chars

\* f"{trace_id:32x}" of line 270
FormatTraceId(digits) == PadLeft(Hex(digits), TraceIdWidth)

\* log records: level, message, and the formatted value in the message
InitError == <<"error", "init_telemetry can only be called once!", <<>>>>
TraceIdInfo(digits) ==
    <<"info", "Trace ID for pytest session is ", FormatTraceId(digits)>>

\* no guard at all
AlreadyInitialized_Never == FALSE

\* a closed ExitStack taken for no ExitStack
AlreadyInitialized_Open ==
    ~session_context_stack.none /\ session_context_stack.callbacks # <<>>

\* line 216: the guard of init_telemetry
AlreadyInitialized == ~session_context_stack.none

init_telemetry(otel_session_name, otel_traceparent) ==
    /\ pc = "idle"
    /\ lastCall' = <<"init_telemetry", 0>>
    /\ IF AlreadyInitialized
       THEN /\ Len(log) < MaxLog
            /\ log' = Append(log, InitError)
            /\ UNCHANGED <<sessionVars, spans, current>>
       ELSE LET id == SessionSpan(Cardinality(SessionSpans(spans)) + 1)
            IN  /\ options' = [OTEL_SESSION_NAME |->
                                 Or(otel_session_name, DEFAULT_SESSION_NAME)]
                /\ environ' = IF Or(otel_traceparent, environ) # "None"
                              THEN Or(otel_traceparent, environ)
                              ELSE environ
                /\ tracer' = get_tracer(options'.OTEL_SESSION_NAME)
                /\ session_context_stack' = ExitStack(<<id>>)
                /\ trace_id' \in TraceIds
                /\ spans' = StartSpan(spans, current, id)
                /\ current' = id
                /\ UNCHANGED log
    /\ UNCHANGED <<flushes, runloopDone, hostVars>>

pytest_configure(otel_session_name, otel_traceparent) ==
    IF session_context_stack.none
    THEN init_telemetry(otel_session_name, otel_traceparent)
    ELSE /\ pc = "idle"
         /\ lastCall' = <<"pytest_configure", 0>>
         /\ UNCHANGED <<sessionVars, spans, current, log, flushes, runloopDone, hostVars>>

pytest_sessionfinish(exitstatus) ==
    /\ pc = "idle"
    /\ lastCall' = <<"pytest_sessionfinish", exitstatus>>
    /\ IF is_recording(spans, current)
       THEN /\ Len(log) < MaxLog
            /\ spans' = set_status(
                          set_attribute(spans, current, "tests.status",
                                        _exit_code_to_outcome(exitstatus)),
                          current,
                          _convert_outcome(_exit_code_to_outcome(exitstatus)))
            /\ log' = Append(log, TraceIdInfo(trace_id))
       ELSE UNCHANGED <<spans, log>>
    /\ runloopDone' = TRUE
    /\ UNCHANGED <<sessionVars, current, flushes, hostVars>>

pytest_unconfigure ==
    /\ pc = "idle"
    /\ flushes < MaxFlushes
    /\ lastCall' = <<"pytest_unconfigure", 0>>
    /\ IF ~session_context_stack.none
       THEN LET closed == ExitStackClose(spans, current, session_context_stack.callbacks)
            IN  /\ session_context_stack' = ExitStack(closed.callbacks)
                /\ spans' = closed.spans
                /\ current' = closed.current
       ELSE UNCHANGED <<session_context_stack, spans, current>>
    /\ flushes' = flushes + 1
    /\ runloopDone' = TRUE
    /\ UNCHANGED <<tracer, options, environ, trace_id, log, hostVars>>

-----------------------------------------------------------------------------
(* Fixture instrumentation decorator *)

\* the functions a test's fixtures wrap: an ordinary function, a generator
\* function, and a generator function marked as a coroutine
PlainFunction == [genfunc |-> FALSE, coroutine |-> FALSE]
GeneratorFunction == [genfunc |-> TRUE, coroutine |-> FALSE]
MarkedGeneratorFunction == [genfunc |-> TRUE, coroutine |-> TRUE]
FixtureFunctions == {PlainFunction, GeneratorFunction, MarkedGeneratorFunction}

iscoroutinefunction(func) == func.coroutine

is_generator(func) == func.genfunc /\ ~iscoroutinefunction(func)

\* what the wrapped function produces when it does not raise: calling an
\* ordinary function returns its value, calling a generator function returns
\* a generator object, whose first next() gives the value it yields
Returned(func) == IF func.genfunc THEN "generator object" ELSE "42"
Yielded(func) == "24"

\* raised: the exception the wrapped function raised; delivered: the
\* exception that left new_f for the host
NewFixture(func) ==
    [func |-> func, state |-> "pending", received |-> "nothing",
     invocations |-> 0, after_yield |-> 0, after_yield_in |-> NoSpan,
     completion |-> "none", raised |-> "none", delivered |-> "none"]

\* what the wrapped function may raise when it is called (line 98) or first
\* advanced (line 81): any exception; the body of a generator function
\* cannot let a StopIteration out, an ordinary function can raise one
SetupExceptions(func) ==
    IF func.genfunc THEN {"Exception"} ELSE {"Exception", "StopIteration"}

\* new_f is itself a generator function (it contains yield): an exception
\* leaves it unchanged, except a StopIteration, which the interpreter
\* replaces by a RuntimeError
LeavesGenerator(exc) == IF exc = "StopIteration" THEN "RuntimeError" ELSE exc

FixtureLists ==
    UNION {[1..n -> {NewFixture(f) : f \in FixtureFunctions}] : n \in 0..MaxFixtures}

\* the generator is handed on without being advanced
SetupResult_NotAdvanced(func) == Returned(func)

\* the value new_f yields to the host: x of line 82, or the value of
\* wrapped_function(*args, **kwargs) of line 98
SetupResult(func) == IF is_generator(func) THEN Yielded(func) ELSE Returned(func)

\* new_f, from its call to its yield (or to the exception that leaves it):
\* lines 76-82 for a generator function, lines 91-98 otherwise; exc is what
\* the wrapped function raises, "none" when it raises nothing
new_f_setup(i, exc) ==
    LET f == fixtures[i]
        raises == exc # "none"
        setupSpan == FixtureSpan(t, i, "(setup)")
        plainSpan == FixtureSpan(t, i, "")
        started == [f EXCEPT !.invocations = @ + 1,
                             !.raised = exc,
                             !.delivered = LeavesGenerator(exc)]
    IN  IF is_generator(f.func)
        THEN IF raises
             THEN /\ spans' = EndSpanOnException(
                                StartSpan(spans, current, setupSpan), setupSpan)
                  /\ current' = Detach(StartSpan(spans, current, setupSpan), setupSpan)
                  /\ fixtures' = [fixtures EXCEPT ![i] = [started EXCEPT !.state = "failed"]]
                  /\ excinfo' = "error"
             ELSE /\ spans' = EndSpan(StartSpan(spans, current, setupSpan), setupSpan)
                  /\ current' = Detach(StartSpan(spans, current, setupSpan), setupSpan)
                  /\ fixtures' = [fixtures EXCEPT ![i] =
                                    [started EXCEPT !.state = "yielded",
                                                    !.received = SetupResult(f.func)]]
                  /\ UNCHANGED excinfo
        ELSE IF raises
             THEN /\ spans' = EndSpanOnException(
                                StartSpan(spans, current, plainSpan), plainSpan)
                  /\ current' = Detach(StartSpan(spans, current, plainSpan), plainSpan)
                  /\ fixtures' = [fixtures EXCEPT ![i] = [started EXCEPT !.state = "failed"]]
                  /\ excinfo' = "error"
             ELSE /\ spans' = StartSpan(spans, current, plainSpan)
                  /\ current' = plainSpan
                  /\ fixtures' = [fixtures EXCEPT ![i] =
                                    [started EXCEPT !.state = "yielded",
                                                    !.received = SetupResult(f.func)]]
                  /\ UNCHANGED excinfo

\* what next(generator) of line 87 does: the generator completes
\* ("StopIteration"), the code after its yield raises, or it yields again
TeardownBehaviours == {"StopIteration", "raise", "yield"}

\* no except clause for StopIteration
LeavesTry_Uncaught(behaviour) == behaviour \in {"raise", "StopIteration"}

\* lines 86-89: of these, what leaves the try statement as an exception
LeavesTry(behaviour) == behaviour = "raise"

\* new_f, resumed after its yield: lines 83-89 for a generator function, the
\* end of the with block of lines 91-98 otherwise
new_f_teardown(i, behaviour) ==
    LET f == fixtures[i]
        teardownSpan == FixtureSpan(t, i, "(teardown)")
        plainSpan == FixtureSpan(t, i, "")
        opened == StartSpan(spans, current, teardownSpan)
    IN  IF is_generator(f.func)
        THEN /\ fixtures' = [fixtures EXCEPT ![i] =
                               [f EXCEPT !.state = "done",
                                         !.after_yield = @ + 1,
                                         !.after_yield_in = teardownSpan,
                                         !.completion = behaviour,
                                         !.raised = IF behaviour = "raise"
                                                    THEN "Exception" ELSE "none",
                                         !.delivered =
                                            IF LeavesTry(behaviour)
                                            THEN LeavesGenerator(
                                                   IF behaviour = "raise"
                                                   THEN "Exception" ELSE behaviour)
                                            ELSE "none"]]
             /\ current' = Detach(opened, teardownSpan)
             /\ IF LeavesTry(behaviour)
                THEN /\ spans' = EndSpanOnException(opened, teardownSpan)
                     /\ excinfo' = "error"
                ELSE /\ spans' = EndSpan(opened, teardownSpan)
                     /\ UNCHANGED excinfo
        ELSE /\ behaviour = "StopIteration"
             /\ fixtures' = [fixtures EXCEPT ![i] = [f EXCEPT !.state = "done"]]
             /\ spans' = EndSpan(spans, plainSpan)
             /\ current' = Detach(spans, plainSpan)
             /\ UNCHANGED excinfo

-----------------------------------------------------------------------------
(* Test span controller *)

Pending == {i \in DOMAIN fixtures : fixtures[i].state = "pending"}
YieldedFixtures == {i \in DOMAIN fixtures : fixtures[i].state = "yielded"}
Min(S) == CHOOSE x \in S : \A y \in S : x <= y
Max(S) == CHOOSE x \in S : \A y \in S : x >= y

NotRun == [setup |-> "notrun", call |-> "notrun", teardown |-> "notrun"]

\* create_runtest_span, entering and leaving its with block
create_runtest_span_enter(id, test_name) ==
    /\ spans' = set_attribute(StartSpan(spans, current, id), id, "tests.name", test_name)
    /\ current' = id

\* the context is reset but the span is never ended
create_runtest_span_exit_Leaked(id) ==
    /\ UNCHANGED spans
    /\ current' = Detach(spans, id)

\* the span ends and stays the current span
create_runtest_span_exit_Attached(id) ==
    /\ spans' = EndSpan(spans, id)
    /\ UNCHANGED current

create_runtest_span_exit(id) ==
    /\ spans' = EndSpan(spans, id)
    /\ current' = Detach(spans, id)

\* ended spans leave the process through the span processor once nothing
\* refers to them; the host moves on to the next item
Referenced(S, cur) == {cur} \cup {S[id].token : id \in {x \in DOMAIN S : S[x].ends = 0}}
Retained(S, cur) ==
    [id \in {x \in DOMAIN S : S[x].ends = 0 \/ x \in Referenced(S, cur)} |-> S[id]]

pytest_runtest_protocol_enter(fs) ==
    /\ pc = "idle"
    /\ ~runloopDone
    /\ t < MaxTests
    /\ tracer # "unset"
    /\ t' = t + 1
    /\ lastCall' = <<"pytest_runtest_protocol", t'>>
    /\ create_runtest_span_enter(TestSpan(t'), t')
    /\ fixtures' = fs
    /\ pc' = "enter_setup"
    /\ UNCHANGED <<sessionVars, log, flushes, runloopDone, when, excinfo, results>>

\* the global name tracer is unbound until init_telemetry has run
pytest_runtest_protocol_unbound ==
    /\ pc = "idle"
    /\ ~runloopDone
    /\ tracer = "unset"
    /\ lastCall' = <<"pytest_runtest_protocol", t + 1>>
    /\ runloopDone' = TRUE
    /\ UNCHANGED <<sessionVars, spans, current, log, flushes, hostVars>>

pytest_runtest_protocol_exit ==
    /\ pc = "exit_protocol"
    /\ create_runtest_span_exit(TestSpan(t))
    /\ pc' = "done"
    /\ UNCHANGED <<sessionVars, log, flushes, runloopDone, t, when, excinfo, results,
                   fixtures, lastCall>>

NextItem ==
    /\ pc = "done"
    /\ spans' = Retained(spans, current)
    /\ pc' = "idle"
    /\ when' = ""
    /\ excinfo' = "none"
    /\ results' = NotRun
    /\ fixtures' = <<>>
    /\ UNCHANGED <<sessionVars, current, log, flushes, runloopDone, t, lastCall>>

PhaseEnter(from, phase, to) ==
    /\ pc = from
    /\ lastCall' = <<"pytest_runtest_" \o phase, t>>
    /\ create_runtest_span_enter(PhaseSpan(t, "(" \o phase \o ")"), t)
    /\ pc' = to
    /\ when' = phase
    /\ excinfo' = "none"
    /\ UNCHANGED <<sessionVars, log, flushes, runloopDone, t, results, fixtures>>

\* the part of a phase hook wrapper after its yield; result is what the
\* phase ended with
PhaseExit(from, phase, result) ==
    /\ pc = from
    /\ create_runtest_span_exit(PhaseSpan(t, "(" \o phase \o ")"))
    /\ excinfo' = result
    /\ results' = [results EXCEPT ![phase] = result]
    /\ pc' = "makereport"
    /\ UNCHANGED <<sessionVars, log, flushes, runloopDone, t, when, fixtures, lastCall>>

pytest_runtest_setup_enter == PhaseEnter("enter_setup", "setup", "in_setup")

pytest_runtest_setup_exit(result) ==
    /\ IF excinfo # "none" THEN result = excinfo
       ELSE result = "none" => Pending = {}
    /\ PhaseExit("in_setup", "setup", result)

pytest_runtest_call_enter == PhaseEnter("enter_call", "call", "in_call")

pytest_runtest_call_exit(result) == PhaseExit("in_call", "call", result)

pytest_runtest_teardown_enter == PhaseEnter("enter_teardown", "teardown", "in_teardown")

pytest_runtest_teardown_exit(result) ==
    /\ YieldedFixtures = {}
    /\ IF excinfo # "none" THEN result = excinfo ELSE result \in {"none", "error"}
    /\ PhaseExit("in_teardown", "teardown", result)

\* the host sets up the fixtures of the item in order, and tears down those
\* that produced a value in reverse order, going on after a failure
FixtureSetup(exc) ==
    /\ pc = "in_setup"
    /\ excinfo = "none"
    /\ Pending # {}
    /\ exc \in {"none"} \cup SetupExceptions(fixtures[Min(Pending)].func)
    /\ lastCall' = <<"new_f", Min(Pending)>>
    /\ new_f_setup(Min(Pending), exc)
    /\ UNCHANGED <<sessionVars, log, flushes, runloopDone, pc, t, when, results>>

FixtureTeardown(behaviour) ==
    /\ pc = "in_teardown"
    /\ YieldedFixtures # {}
    /\ lastCall' = <<"new_f", Max(YieldedFixtures)>>
    /\ new_f_teardown(Max(YieldedFixtures), behaviour)
    /\ UNCHANGED <<sessionVars, log, flushes, runloopDone, pc, t, when, results>>

\* rep.outcome of the report the host makes of a phase
ReportOutcome(exc) ==
    IF exc = "none" THEN "passed" ELSE IF exc = "error" THEN "failed" ELSE "skipped"

\* the report of the setup phase taken instead of the report of the call phase
pytest_runtest_makereport_Setup ==
    /\ pc = "makereport"
    /\ lastCall' = <<"pytest_runtest_makereport", t>>
    /\ IF when = "setup"
       THEN spans' = set_attribute(
                        set_status(spans, current, _convert_outcome(ReportOutcome(excinfo))),
                        current, "tests.status", ReportOutcome(excinfo))
       ELSE UNCHANGED spans
    /\ pc' = "logreport"
    /\ UNCHANGED <<sessionVars, current, log, flushes, runloopDone, t, when, excinfo,
                   results, fixtures>>

pytest_runtest_makereport ==
    /\ pc = "makereport"
    /\ lastCall' = <<"pytest_runtest_makereport", t>>
    /\ IF when = "call"
       THEN spans' = set_attribute(
                        set_status(spans, current, _convert_outcome(ReportOutcome(excinfo))),
                        current, "tests.status", ReportOutcome(excinfo))
       ELSE UNCHANGED spans
    /\ pc' = "logreport"
    /\ UNCHANGED <<sessionVars, current, log, flushes, runloopDone, t, when, excinfo,
                   results, fixtures>>

\* where the host goes after the reports of a phase
AfterReports ==
    IF when = "setup"
    THEN IF excinfo = "none" THEN "enter_call" ELSE "enter_teardown"
    ELSE IF when = "call" THEN "enter_teardown" ELSE "exit_protocol"

\* the failure details attached for a failed report of any phase
pytest_runtest_logreport_AnyPhase(has_duration) ==
    /\ pc = "logreport"
    /\ lastCall' = <<"pytest_runtest_logreport", IF has_duration THEN 1 ELSE 0>>
    /\ IF ReportOutcome(excinfo) = "failed"
       THEN spans' = set_attribute(
                       set_attribute(
                         set_attribute(spans, current, "tests.stderr", "capstderr"),
                         current, "tests.stdout", "capstdout"),
                       current, "tests.duration",
                       IF has_duration THEN "duration" ELSE "0.0")
       ELSE /\ has_duration
            /\ UNCHANGED spans
    /\ pc' = IF excinfo = "error" THEN "interact" ELSE AfterReports
    /\ UNCHANGED <<sessionVars, current, log, flushes, runloopDone, t, when, excinfo,
                   results, fixtures>>

pytest_runtest_logreport(has_duration) ==
    /\ pc = "logreport"
    /\ lastCall' = <<"pytest_runtest_logreport", IF has_duration THEN 1 ELSE 0>>
    /\ IF ReportOutcome(excinfo) = "failed" /\ when = "call"
       THEN spans' = set_attribute(
                       set_attribute(
                         set_attribute(spans, current, "tests.stderr", "capstderr"),
                         current, "tests.stdout", "capstdout"),
                       current, "tests.duration",
                       IF has_duration THEN "duration" ELSE "0.0")
       ELSE /\ has_duration
            /\ UNCHANGED spans
    /\ pc' = IF excinfo = "error" THEN "interact" ELSE AfterReports
    /\ UNCHANGED <<sessionVars, current, log, flushes, runloopDone, t, when, excinfo,
                   results, fixtures>>

\* the traceback recorded only for the report of the call phase
pytest_exception_interact_CallOnly(is_test_report) ==
    /\ IF is_test_report THEN pc = "interact" ELSE pc = "idle" /\ ~runloopDone
    /\ lastCall' = <<"pytest_exception_interact", t>>
    /\ IF is_test_report /\ when = "call"
       THEN spans' = set_attribute(spans, current, "tests.error", "stack_trace")
       ELSE UNCHANGED spans
    /\ pc' = IF is_test_report THEN AfterReports ELSE pc
    /\ UNCHANGED <<sessionVars, current, log, flushes, runloopDone, t, when, excinfo,
                   results, fixtures>>

\* is_test_report: isinstance(report, pytest.TestReport); the host also calls
\* the hook with the report of a failed collection, outside any test
pytest_exception_interact(is_test_report) ==
    /\ IF is_test_report THEN pc = "interact" ELSE pc = "idle" /\ ~runloopDone
    /\ lastCall' = <<"pytest_exception_interact", t>>
    /\ IF is_test_report
       THEN spans' = set_attribute(spans, current, "tests.error", "stack_trace")
       ELSE UNCHANGED spans
    /\ pc' = IF is_test_report THEN AfterReports ELSE pc
    /\ UNCHANGED <<sessionVars, current, log, flushes, runloopDone, t, when, excinfo,
                   results, fixtures>>

-----------------------------------------------------------------------------

Init ==
    /\ session_context_stack = None
    /\ tracer = "unset"
    /\ options = NoOptions
    /\ environ \in TraceparentEnv
    /\ trace_id = <<>>
    /\ spans = [id \in {} |-> NewSpan(NoSpan)]
    /\ current = NoSpan
    /\ log = <<>>
    /\ flushes = 0
    /\ runloopDone = FALSE
    /\ pc = "idle"
    /\ t = 0
    /\ when = ""
    /\ excinfo = "none"
    /\ results = NotRun
    /\ fixtures = <<>>
    /\ lastCall = <<"", 0>>

Outcomes == {"none", "error", "skipped"}
Exceptions == {"none", "Exception", "StopIteration"}

Next ==
    \/ \E n \in SessionNameOptions, p \in TraceparentOptions : init_telemetry(n, p)
    \/ \E n \in SessionNameOptions, p \in TraceparentOptions : pytest_configure(n, p)
    \/ \E c \in ExitCodes : pytest_sessionfinish(c)
    \/ pytest_unconfigure
    \/ \E fs \in FixtureLists : pytest_runtest_protocol_enter(fs)
    \/ pytest_runtest_protocol_unbound
    \/ pytest_runtest_setup_enter
    \/ \E exc \in Exceptions : FixtureSetup(exc)
    \/ \E r \in Outcomes : pytest_runtest_setup_exit(r)
    \/ pytest_runtest_call_enter
    \/ \E r \in Outcomes : pytest_runtest_call_exit(r)
    \/ pytest_runtest_teardown_enter
    \/ \E b \in TeardownBehaviours : FixtureTeardown(b)
    \/ \E r \in Outcomes : pytest_runtest_teardown_exit(r)
    \/ pytest_runtest_makereport
    \/ \E d \in BOOLEAN : pytest_runtest_logreport(d)
    \/ \E r \in BOOLEAN : pytest_exception_interact(r)
    \/ pytest_runtest_protocol_exit
    \/ NextItem

Spec == Init /\ [][Next]_vars

-----------------------------------------------------------------------------
(* The host runs the protocol of an item it has started to its end: every   *)
(* hook wrapper is resumed after its yield, whatever the wrapped phase did. *)

ProtocolStep == pc # "idle" /\ Next

FairSpec == Spec /\ WF_vars(ProtocolStep)

-----------------------------------------------------------------------------
(* Properties *)

SessionState ==
    IF session_context_stack.none THEN "UNINITIALIZED"
    ELSE IF session_context_stack.callbacks # <<>> THEN "ACTIVE" ELSE "CLOSED"

Last(seq) == seq[Len(seq)]

\* C1: over any sequence of pytest_configure, init_telemetry and
\* pytest_unconfigure calls, at most one session span is ever started.
C1_AtMostOneRootSpan == Cardinality(SessionSpans(spans)) <= 1

\* init_telemetry has been called again while the session span is open
C1_Witness ==
    /\ SessionState = "ACTIVE"
    /\ lastCall[1] = "init_telemetry"
    /\ log # <<>> /\ Last(log) = InitError
    /\ Cardinality(SessionSpans(spans)) = 1

\* C2: the session goes UNINITIALIZED -> ACTIVE -> CLOSED and no other way,
\* the first step only by init_telemetry and the second only by
\* pytest_unconfigure; a call of init_telemetry in ACTIVE or CLOSED logs an
\* error and leaves the session context stack, the tracer, the options, the
\* TRACEPARENT environment value, the spans and the current span unchanged.
C2_InitOnlyOnce ==
    [][/\ <<SessionState, SessionState'>> \in
            {<<"UNINITIALIZED", "UNINITIALIZED">>, <<"UNINITIALIZED", "ACTIVE">>,
             <<"ACTIVE", "ACTIVE">>, <<"ACTIVE", "CLOSED">>, <<"CLOSED", "CLOSED">>}
       /\ (SessionState = "UNINITIALIZED" /\ SessionState' = "ACTIVE")
             => lastCall'[1] = "init_telemetry"
       /\ (SessionState = "ACTIVE" /\ SessionState' = "CLOSED")
             => lastCall'[1] = "pytest_unconfigure"
       /\ (lastCall'[1] = "init_telemetry" /\ SessionState # "UNINITIALIZED")
             => /\ log' = Append(log, InitError)
                /\ UNCHANGED <<session_context_stack, tracer, options, environ,
                               spans, current>>
      ]_vars

\* init_telemetry has been called after pytest_unconfigure closed the session
C2_Witness ==
    /\ SessionState = "CLOSED"
    /\ lastCall[1] = "init_telemetry"
    /\ log # <<>> /\ Last(log) = InitError
    /\ \A id \in SessionSpans(spans) : spans[id].ends = 1

\* C3: across any number of pytest_unconfigure calls the session span is
\* ended exactly once if it was started (never twice; once the stack is
\* closed, once; while it is entered, not yet), no span is ended when
\* init_telemetry never ran, and a pytest_unconfigure call made when the
\* session is not ACTIVE changes no span, nor the current span, nor the log.
C3_ShutdownIdempotent ==
    /\ [](/\ \A id \in SessionSpans(spans) :
               /\ spans[id].ends <= 1
               /\ SessionState = "CLOSED" => spans[id].ends = 1
               /\ SessionState = "ACTIVE" => spans[id].ends = 0
          /\ SessionState = "UNINITIALIZED" =>
               \A id \in DOMAIN spans : spans[id].ends = 0)
    /\ [][(lastCall'[1] = "pytest_unconfigure" /\ SessionState # "ACTIVE")
            => UNCHANGED <<session_context_stack, spans, current, log>>]_vars

\* tests have run, so init_telemetry came first, and pytest_unconfigure has
\* been called twice since: the second call found the session closed
C3_Witness ==
    /\ t >= 1
    /\ flushes = 2
    /\ lastCall[1] = "pytest_unconfigure"
    /\ SessionState = "CLOSED"
    /\ \A id \in SessionSpans(spans) : spans[id].ends = 1

\* C4: pytest_sessionfinish called before any init_telemetry, or after
\* pytest_unconfigure has closed the session span, sets no attribute and no
\* status on any span and logs no trace id line.
C4_SessionfinishDefensive ==
    [][(lastCall'[1] = "pytest_sessionfinish" /\ SessionState # "ACTIVE")
         => UNCHANGED <<spans, current, log>>]_vars

\* pytest_sessionfinish has been called after tests ran and after
\* pytest_unconfigure closed the session span, and nothing was logged
C4_Witness ==
    /\ t >= 1
    /\ SessionState = "CLOSED"
    /\ lastCall[1] = "pytest_sessionfinish"
    /\ log = <<>>

\* the table of exit codes and outcome labels
ExpectedOutcome(c) ==
    CASE c = 0 -> "passed"
      [] c = 1 -> "failed"
      [] c = 2 -> "interrupted"
      [] c = 3 -> "internal_error"
      [] c = 4 -> "usage_error"
      [] c = 5 -> "no_tests_collected"
      [] OTHER -> "failed"

\* C5: after pytest_sessionfinish(c) on an ACTIVE session with no test span
\* open, the session span has tests.status as the table gives for c
\* ("failed" for every c outside 0..5), status OK when c = 0 and ERROR for
\* every other c.
C5_SessionOutcome ==
    \A c \in ExitCodes :
        (lastCall = <<"pytest_sessionfinish", c>> /\ SessionState = "ACTIVE")
        => /\ SessionSpan(1) \in DOMAIN spans
           /\ "tests.status" \in DOMAIN spans[SessionSpan(1)].attrs
           /\ spans[SessionSpan(1)].attrs["tests.status"] = ExpectedOutcome(c)
           /\ spans[SessionSpan(1)].status = IF c = 0 THEN "OK" ELSE "ERROR"

\* after a test, pytest_sessionfinish(-1) has run on the open session span
C5_Witness ==
    /\ t >= 1
    /\ lastCall = <<"pytest_sessionfinish", -1>>
    /\ SessionState = "ACTIVE"
    /\ spans[SessionSpan(1)].attrs["tests.status"] = "failed"

\* the table of outcome labels and statuses
ExpectedStatus(outcome) ==
    CASE outcome = "passed" -> "OK"
      [] outcome \in {"failed", "interrupted", "internal_error", "usage_error",
                      "no_tests_collected"} -> "ERROR"
      [] OTHER -> "UNSET"

\* C6: _convert_outcome maps "passed" to OK, the five failure labels to
\* ERROR and every other string to UNSET: every span that a hook gave a
\* tests.status has the status the table gives for that label.
C6_ConvertOutcome ==
    \A id \in DOMAIN spans :
        "tests.status" \in DOMAIN spans[id].attrs
        => spans[id].status = ExpectedStatus(spans[id].attrs["tests.status"])

\* a test whose call phase was skipped: the label outside the table
C6_Witness ==
    /\ pc = "done"
    /\ "tests.status" \in DOMAIN spans[TestSpan(t)].attrs
    /\ spans[TestSpan(t)].attrs["tests.status"] = "skipped"
    /\ spans[TestSpan(t)].status = "UNSET"

\* C7: every test span has the session span as its parent, every phase
\* sub-span has the span of its own test as its parent, and a phase sub-span
\* is ended before the span of its test is.
C7_SpanNesting ==
    \A id \in DOMAIN spans :
        /\ id[1] = "test" => /\ spans[id].parent = SessionSpan(1)
                             /\ spans[id].parent \in DOMAIN spans
        /\ id[1] = "phase" =>
              /\ spans[id].parent = TestSpan(id[2])
              /\ TestSpan(id[2]) \in DOMAIN spans
              /\ spans[TestSpan(id[2])].ends > 0 => spans[id].ends > 0

\* the second test has ended; it used a plain and a generator-style fixture
\* and went through its three phases
C7_Witness ==
    /\ pc = "done"
    /\ t = 2
    /\ \E i, j \in DOMAIN fixtures :
          /\ fixtures[i].func = PlainFunction /\ fixtures[i].state = "done"
          /\ fixtures[j].func = GeneratorFunction /\ fixtures[j].state = "done"
    /\ \A phase \in {"(setup)", "(call)", "(teardown)"} :
          PhaseSpan(t, phase) \in DOMAIN spans

\* what the wrapped function gives: the value an ordinary function returns,
\* the value a generator function yields first, and, for a generator function
\* that is not taken for generator-style, the generator object its call returns
ExpectedValue(func) ==
    IF func = GeneratorFunction THEN "24"
    ELSE IF func = PlainFunction THEN "42" ELSE "generator object"

\* C8: the value handed to the dependent test is the value the wrapped
\* function returned (plain) or yielded first (generator-style), and the
\* wrapped function is invoked exactly once per fixture invocation.
C8_FixtureValue ==
    \A i \in DOMAIN fixtures :
        /\ fixtures[i].state \in {"yielded", "done"}
              => /\ fixtures[i].received = ExpectedValue(fixtures[i].func)
                 /\ fixtures[i].invocations = 1
        /\ fixtures[i].state = "failed"
              => fixtures[i].received = "nothing" /\ fixtures[i].invocations = 1
        /\ fixtures[i].state = "pending"
              => fixtures[i].received = "nothing" /\ fixtures[i].invocations = 0

\* the call phase of a test that requested a plain and a generator-style
\* fixture: both values have been handed over
C8_Witness ==
    /\ pc = "in_call"
    /\ \E i, j \in DOMAIN fixtures :
          /\ fixtures[i].func = PlainFunction /\ fixtures[i].received = "42"
          /\ fixtures[j].func = GeneratorFunction /\ fixtures[j].received = "24"

\* C9: for a generator-style fixture whose generator yields once and then
\* completes, the code after the yield runs exactly once, not before the
\* wrapper is resumed in the teardown phase, and inside the "(teardown)" span;
\* the "(setup)" and the "(teardown)" span have both been started and ended,
\* without an exception; and the completion does not reach the host: the
\* teardown phase has an exception only if some fixture's teardown raised.
C9_GeneratorTeardown ==
    /\ \A i \in DOMAIN fixtures :
          is_generator(fixtures[i].func) =>
             /\ fixtures[i].state \in {"pending", "yielded", "failed"}
                   => fixtures[i].after_yield = 0
             /\ fixtures[i].after_yield > 0 => when = "teardown"
             /\ (fixtures[i].state = "done" /\ fixtures[i].completion = "StopIteration")
                   => /\ fixtures[i].after_yield = 1
                      /\ fixtures[i].after_yield_in = FixtureSpan(t, i, "(teardown)")
                      /\ \A label \in {"(setup)", "(teardown)"} :
                            /\ FixtureSpan(t, i, label) \in DOMAIN spans
                            /\ spans[FixtureSpan(t, i, label)].ends = 1
                            /\ ~spans[FixtureSpan(t, i, label)].exception
    /\ (pc = "in_teardown" /\ excinfo # "none")
          => \E i \in DOMAIN fixtures : fixtures[i].completion = "raise"

\* a generator-style fixture has been torn down, its generator completed,
\* and the teardown phase has no exception
C9_Witness ==
    /\ pc = "in_teardown"
    /\ excinfo = "none"
    /\ \E i \in DOMAIN fixtures :
          /\ is_generator(fixtures[i].func)
          /\ fixtures[i].state = "done"
          /\ fixtures[i].completion = "StopIteration"

\* C10: when the span of a test whose call phase raised (an exception the
\* host reports as a failure) has ended, that span has status ERROR,
\* tests.status "failed" and tests.error, the serialized traceback.
C10_CallFailureRecorded ==
    (pc = "done" /\ results.call = "error")
    => /\ spans[TestSpan(t)].ends = 1
       /\ spans[TestSpan(t)].status = "ERROR"
       /\ {"tests.status", "tests.error"} \subseteq DOMAIN spans[TestSpan(t)].attrs
       /\ spans[TestSpan(t)].attrs["tests.status"] = "failed"
       /\ spans[TestSpan(t)].attrs["tests.error"] = "stack_trace"

\* a test with a plain fixture whose call phase raised has ended
C10_Witness ==
    /\ pc = "done"
    /\ results.call = "error"
    /\ \E i \in DOMAIN fixtures :
          fixtures[i].func = PlainFunction /\ fixtures[i].state = "done"

\* C11, as amended: when the span of a test whose call phase passed has
\* ended, its status is OK, whatever its teardown ended with; it has
\* tests.error exactly when its teardown phase raised an exception the host
\* reports as a failure.
C11_CallPassed ==
    (pc = "done" /\ results.call = "none")
    => /\ spans[TestSpan(t)].ends = 1
       /\ spans[TestSpan(t)].status = "OK"
       /\ "tests.error" \in DOMAIN spans[TestSpan(t)].attrs
             <=> results.teardown = "error"

\* a test has ended whose call phase passed and whose teardown phase raised
C11_Witness ==
    /\ pc = "done"
    /\ results.call = "none"
    /\ results.teardown = "error"
    /\ spans[TestSpan(t)].status = "OK"
    /\ "tests.error" \in DOMAIN spans[TestSpan(t)].attrs

\* C11, as stated: when the span of a test whose call phase passed has ended,
\* its status is OK and it has no tests.error, for every outcome of its setup
\* and teardown phases.
C11_Original ==
    (pc = "done" /\ results.call = "none")
    => /\ spans[TestSpan(t)].status = "OK"
       /\ "tests.error" \notin DOMAIN spans[TestSpan(t)].attrs

\* C12: when the span of a test has ended, and one of its phases (setup, call
\* or teardown) raised an exception the host reports as a failure, the test
\* span has tests.error and status ERROR.
C12_EveryExceptionRecorded ==
    (pc = "done" /\ \E phase \in {"setup", "call", "teardown"} : results[phase] = "error")
    => /\ spans[TestSpan(t)].ends = 1
       /\ "tests.error" \in DOMAIN spans[TestSpan(t)].attrs
       /\ spans[TestSpan(t)].status = "ERROR"

\* a test has ended whose setup phase raised: the traceback is on the test
\* span, and its status was never set
C12_Witness ==
    /\ pc = "done"
    /\ results.setup = "error"
    /\ results.call = "notrun"
    /\ "tests.error" \in DOMAIN spans[TestSpan(t)].attrs
    /\ spans[TestSpan(t)].status = "UNSET"

FailureDetails == {"tests.stderr", "tests.stdout", "tests.duration"}

\* C13: pytest_runtest_logreport, given a failed report of the call phase,
\* sets tests.stderr, tests.stdout and tests.duration on the current span
\* (tests.duration is 0.0 when the report has no duration) and changes
\* nothing else; given any other report it changes no span.  No other hook
\* sets any of the three: a span has one of them only if it is the span of
\* the running test, the call phase of that test failed, and it has all three.
C13_FailureDetails ==
    /\ [](\A id \in DOMAIN spans :
             DOMAIN spans[id].attrs \cap FailureDetails # {}
             => /\ id = TestSpan(t)
                /\ results.call = "error"
                /\ FailureDetails \subseteq DOMAIN spans[id].attrs)
    /\ [][pc = "logreport" =>
            IF when = "call" /\ ReportOutcome(excinfo) = "failed"
            THEN /\ current \in DOMAIN spans
                 /\ DOMAIN spans' = DOMAIN spans
                 /\ \A id \in DOMAIN spans \ {current} : spans'[id] = spans[id]
                 /\ spans'[current] =
                       [spans[current] EXCEPT !.attrs =
                          [k \in DOMAIN spans[current].attrs \cup FailureDetails |->
                             IF k = "tests.stderr" THEN "capstderr"
                             ELSE IF k = "tests.stdout" THEN "capstdout"
                             ELSE IF k = "tests.duration"
                                  THEN IF lastCall'[2] = 1 THEN "duration" ELSE "0.0"
                                  ELSE spans[current].attrs[k]]]
            ELSE UNCHANGED spans]_vars

\* the report of a failed call phase that has no duration has been logged
C13_Witness ==
    /\ pc = "interact"
    /\ when = "call"
    /\ lastCall = <<"pytest_runtest_logreport", 0>>
    /\ current = TestSpan(t)
    /\ FailureDetails \subseteq DOMAIN spans[current].attrs
    /\ spans[current].attrs["tests.duration"] = "0.0"

OpenTestSpans == {id \in DOMAIN spans : id[1] \in {"test", "phase"} /\ spans[id].ends = 0}

\* C14: within a test at most one phase sub-span is open at a time; the
\* "(call)" span is started only after the "(setup)" span has ended and the
\* "(teardown)" span only after the "(setup)" span and, where the call phase
\* ran, the "(call)" span have ended; no test or phase span is ended twice;
\* and every test span and phase sub-span that was started is eventually
\* ended, whether the phase passes, raises, or the call phase is left out
\* after a failed setup.
C14_PhasesSequentialAndClosed ==
    /\ [](/\ Cardinality({id \in OpenTestSpans : id[1] = "phase"}) <= 1
          /\ \A id \in DOMAIN spans : id[1] \in {"test", "phase"} => spans[id].ends <= 1
          /\ \A n \in 1..t :
                /\ PhaseSpan(n, "(call)") \in DOMAIN spans
                      => /\ PhaseSpan(n, "(setup)") \in DOMAIN spans
                         /\ spans[PhaseSpan(n, "(setup)")].ends = 1
                /\ PhaseSpan(n, "(teardown)") \in DOMAIN spans
                      => /\ PhaseSpan(n, "(setup)") \in DOMAIN spans
                         /\ spans[PhaseSpan(n, "(setup)")].ends = 1
                         /\ PhaseSpan(n, "(call)") \in DOMAIN spans
                               => spans[PhaseSpan(n, "(call)")].ends = 1
          /\ pc \in {"idle", "done"} => OpenTestSpans = {})
    /\ (OpenTestSpans # {}) ~> (OpenTestSpans = {})

\* a test has ended whose setup phase raised: the call phase was left out,
\* and the spans of the test and of its setup and teardown phases are ended
C14_Witness ==
    /\ pc = "done"
    /\ results.setup = "error"
    /\ PhaseSpan(t, "(call)") \notin DOMAIN spans
    /\ \A id \in {TestSpan(t), PhaseSpan(t, "(setup)"), PhaseSpan(t, "(teardown)")} :
          id \in DOMAIN spans /\ spans[id].ends = 1

ReportHooks == {"makereport", "logreport", "interact"}

\* C15: whenever pytest_runtest_makereport, pytest_runtest_logreport or
\* pytest_exception_interact runs for a test, the current span, which is the
\* span it writes to, is a span of that test (its test span or one of its
\* phase sub-spans) that has not ended; the hook starts no span, ends none,
\* leaves the current span the current one and changes no other span; and
\* pytest_runtest_makereport changes the span only for the report of the call
\* phase, by its status and its tests.status.
C15_ReportHooksWriteToOpenTestSpan ==
    /\ [](pc \in ReportHooks
            => /\ current \in DOMAIN spans
               /\ current[1] \in {"test", "phase"}
               /\ current[2] = t
               /\ spans[current].ends = 0)
    /\ [][(pc \in ReportHooks)
            => /\ current' = current
               /\ DOMAIN spans' = DOMAIN spans
               /\ \A id \in DOMAIN spans :
                     /\ spans'[id].ends = spans[id].ends
                     /\ id # current => spans'[id] = spans[id]
               /\ pc = "makereport" =>
                     IF when = "call"
                     THEN spans'[current] =
                            [spans[current] EXCEPT
                               !.status = _convert_outcome(ReportOutcome(excinfo)),
                               !.attrs = ("tests.status" :> ReportOutcome(excinfo)) @@ @]
                     ELSE UNCHANGED spans]_vars

\* pytest_exception_interact is about to run for a failed teardown in which
\* the span of a plain instrumented fixture was ended
C15_Witness ==
    /\ pc = "interact"
    /\ when = "teardown"
    /\ current = TestSpan(t)
    /\ \E i \in DOMAIN fixtures :
          /\ ~is_generator(fixtures[i].func)
          /\ fixtures[i].state = "done"
          /\ spans[FixtureSpan(t, i, "")].ends = 1

FixtureSpansOf(i) == {id \in DOMAIN spans : id[1] = "fixture" /\ id[2] = t /\ id[3] = i}

\* C16: for every instrumented fixture, generator-style or plain, once the
\* wrapper has yielded the value to the host every span it started for the
\* setup has ended, and a "(teardown)" span exists only once the wrapper has
\* been resumed for the teardown.
C16_SetupSpanClosedAtYield ==
    \A i \in DOMAIN fixtures :
        /\ fixtures[i].state = "yielded"
              => \A id \in FixtureSpansOf(i) : spans[id].ends = 1
        /\ FixtureSpan(t, i, "(teardown)") \in DOMAIN spans
              => fixtures[i].state = "done" /\ when = "teardown"

\* the call phase of a test runs while the span of its plain instrumented
\* fixture, started during the setup, has not ended
C16_Witness ==
    /\ pc = "in_call"
    /\ \E i \in DOMAIN fixtures :
          /\ ~is_generator(fixtures[i].func)
          /\ fixtures[i].state = "yielded"
          /\ spans[FixtureSpan(t, i, "")].ends = 0

OpenSpans(S) == {id \in DOMAIN S : S[id].ends = 0}

\* C17: the current span is kept as a stack: a span that a step ends is,
\* before that step, the current span (the span started last among those
\* still open), and after a step that ended a span the current span is a
\* span that is still open, or no span when none is open.
C17_CurrentSpanIsAStack ==
    [][/\ \A id \in OpenSpans(spans) :
             (id \in DOMAIN spans' /\ spans'[id].ends > 0) => current = id
       /\ (\E id \in DOMAIN spans' :
              /\ spans'[id].ends > 0
              /\ id \in DOMAIN spans => spans[id].ends = 0)
          => IF OpenSpans(spans') = {}
             THEN current' = NoSpan
             ELSE current' \in OpenSpans(spans')
      ]_vars

\* the teardown of a test has ended the span of a plain instrumented fixture:
\* the current span is now the span of the setup phase, which ended long ago
C17_Witness ==
    /\ pc = "in_teardown"
    /\ current = PhaseSpan(t, "(setup)")
    /\ spans[current].ends = 1
    /\ spans[PhaseSpan(t, "(teardown)")].ends = 0
    /\ \E i \in DOMAIN fixtures :
          /\ ~is_generator(fixtures[i].func)
          /\ fixtures[i].state = "done"

\* C18: when the wrapped fixture function raises during setup or teardown,
\* the exception that leaves the wrapper for the host is that same exception,
\* and no span of that fixture is left open.
C18_FixtureExceptionUnmodified ==
    \A i \in DOMAIN fixtures :
        fixtures[i].raised # "none"
        => /\ fixtures[i].delivered = fixtures[i].raised
           /\ \A id \in FixtureSpansOf(i) : spans[id].ends = 1

\* a plain fixture function raised StopIteration during the setup: its span
\* has ended with the exception recorded, and a RuntimeError reached the host
C18_Witness ==
    /\ pc = "in_setup"
    /\ excinfo = "error"
    /\ \E i \in DOMAIN fixtures :
          /\ fixtures[i].func = PlainFunction
          /\ fixtures[i].state = "failed"
          /\ fixtures[i].raised = "StopIteration"
          /\ fixtures[i].delivered = "RuntimeError"
          /\ spans[FixtureSpan(t, i, "")].ends = 1
          /\ spans[FixtureSpan(t, i, "")].exception

TraceIdLines == {i \in DOMAIN log : log[i][1] = "info"}
LowerHexChars == {HexDigits[i] : i \in DOMAIN HexDigits}

\* C19: every trace id that pytest_sessionfinish writes to the log is 32
\* characters, each a lowercase hexadecimal digit, also for a trace id whose
\* leading hexadecimal digit is zero; and the log of a session has at most
\* one such line.
C19_TraceIdIs32HexDigits ==
    /\ \A i \in TraceIdLines :
          /\ Len(log[i][3]) = 32
          /\ \A k \in DOMAIN log[i][3] : log[i][3][k] \in LowerHexChars
    /\ Cardinality(TraceIdLines) <= 1

\* pytest_sessionfinish has logged a trace id whose leading hexadecimal digit
\* is zero: the line has 32 characters, and the first is a space
C19_Witness ==
    /\ lastCall[1] = "pytest_sessionfinish"
    /\ trace_id # <<>> /\ trace_id[1] = 0
    /\ TraceIdLines # {}
    /\ \A i \in TraceIdLines : Len(log[i][3]) = 32 /\ log[i][3][1] = " "

\* C20: no span is opened as the child of a span that has already ended: a
\* span that a step starts has no parent, or has as its parent a span that,
\* before the step, was started and not yet ended.
C20_ParentOpenAtStart ==
    [][\A id \in DOMAIN spans' \ DOMAIN spans :
          \/ spans'[id].parent = NoSpan
          \/ /\ spans'[id].parent \in DOMAIN spans
             /\ spans[spans'[id].parent].ends = 0
      ]_vars

\* a test used a generator-style fixture and, set up after it, a plain one:
\* the "(teardown)" span of the generator-style fixture has the span of the
\* setup phase, ended before the call phase began, as its parent
C20_Witness ==
    \E i, j \in DOMAIN fixtures :
        /\ i < j
        /\ is_generator(fixtures[i].func)
        /\ ~is_generator(fixtures[j].func)
        /\ FixtureSpan(t, i, "(teardown)") \in DOMAIN spans
        /\ spans[FixtureSpan(t, i, "(teardown)")].parent = PhaseSpan(t, "(setup)")
        /\ spans[PhaseSpan(t, "(setup)")].ends = 1
        /\ spans[FixtureSpan(t, j, "")].ends = 1

=============================================================================
